---- MODULE Spec2Model ----
(***************************************************************************)
(* Circular binary search (src/circ_bs.py).                                *)
(*                                                                         *)
(* circ_bs(list, target) searches a list that is sorted except for one     *)
(* rotation point ("the link").  The model runs one or more invocations    *)
(* of circ_bs against one shared list; every invocation owns a record of   *)
(* its locals (size, lower, upper, mid, pos, found) and a program counter. *)
(* Python indices are 0-based: list[i] of the program is list[i + 1] here. *)
(***************************************************************************)
EXTENDS Integers, Sequences, FiniteSets

VARIABLES list, calls

vars == <<list, calls>>

(* ------------------------------ bounds -------------------------------- *)

\* longest list of arbitrary content
MaxLen == 5
\* arbitrary lists hold values 0..MaxVal
MaxVal == 3
\* rotated ascending lists are built from subsets of 1..MaxRotVal
MaxRotVal == 8
\* concurrent invocations, and the lists they share
NumCalls == 2
ConcMaxLen == 3
ConcMaxVal == 1

Vals == 0..MaxVal
Targets == -1..(MaxVal + 1)
RotVals == 1..MaxRotVal
RotTargets == 0..(MaxRotVal + 1)
ConcVals == 0..ConcMaxVal
ConcTargets == -1..ConcMaxVal

Lists(V, n) == UNION {[1..m -> V] : m \in 0..n}

(* --------------------- building the demo inputs ----------------------- *)

Min(S) == CHOOSE x \in S : \A y \in S : x <= y

RECURSIVE Ascending(_)
\* the ascending list of the values of S (line 116 builds range(0, 1000))
Ascending(S) == IF S = {} THEN <<>> ELSE <<Min(S)>> \o Ascending(S \ {Min(S)})

\* cut k elements off the front and append them to the back, so that
\* rotate(S, k)[x] = S[(x + k) mod n] (line 121: list[-200:] + list[0:800])
rotate(S, k) == [x \in 1..Len(S) |-> S[((x - 1 + k) % Len(S)) + 1]]

\* every rotation, 0 <= k < max(n, 1), of every ascending list over RotVals
RotatedLists ==
    UNION {{rotate(Ascending(S), k) :
               k \in 0..(IF S = {} THEN 0 ELSE Cardinality(S) - 1)} :
           S \in SUBSET RotVals}

(* -------------------------- Python subscripts ------------------------- *)

\* list[i] raises IndexError unless -len <= i < len
Valid(l, i) == (-Len(l) <= i) /\ (i < Len(l))

\* list[i]; a negative index counts from the end
Get(l, i) == IF i >= 0 THEN l[i + 1] ELSE l[Len(l) + i + 1]

(* ------------------------- one loop iteration ------------------------- *)

MidLow(lo, up) == lo

\* line 76
Mid(lo, up) == (up + lo) \div 2

LoopCondStrict(found, lo, up) == (~found) /\ (lo < up)

\* line 75
LoopCond(found, lo, up) == (~found) /\ (lo <= up)

BranchOfHitGe(l, t, lo, up, m) ==
    IF ~Valid(l, m) THEN "IndexError"
    ELSE IF Get(l, m) >= t THEN "hit"
    ELSE IF ~Valid(l, lo) THEN "IndexError"
    ELSE IF t >= Get(l, lo) /\ t < Get(l, m) THEN "left"
    ELSE IF t > Get(l, m) /\ ~Valid(l, up) THEN "IndexError"
    ELSE IF t > Get(l, m) /\ t <= Get(l, up) THEN "right"
    ELSE IF Get(l, lo) > Get(l, m) THEN "linkleft"
    ELSE "linkright"

BranchOfLinkSwapped(l, t, lo, up, m) ==
    IF ~Valid(l, m) THEN "IndexError"
    ELSE IF Get(l, m) = t THEN "hit"
    ELSE IF ~Valid(l, lo) THEN "IndexError"
    ELSE IF t >= Get(l, lo) /\ t < Get(l, m) THEN "left"
    ELSE IF t > Get(l, m) /\ ~Valid(l, up) THEN "IndexError"
    ELSE IF t > Get(l, m) /\ t <= Get(l, up) THEN "right"
    ELSE IF Get(l, lo) < Get(l, m) THEN "linkleft"
    ELSE "linkright"

BranchOfStrictLower(l, t, lo, up, m) ==
    IF ~Valid(l, m) THEN "IndexError"
    ELSE IF Get(l, m) = t THEN "hit"
    ELSE IF ~Valid(l, lo) THEN "IndexError"
    ELSE IF t > Get(l, lo) /\ t < Get(l, m) THEN "left"
    ELSE IF t > Get(l, m) /\ ~Valid(l, up) THEN "IndexError"
    ELSE IF t > Get(l, m) /\ t <= Get(l, up) THEN "right"
    ELSE IF Get(l, lo) > Get(l, m) THEN "linkleft"
    ELSE "linkright"

\* the branch the if/elif/else chain of lines 77-89 takes, evaluated in
\* Python's order with short-circuit "and"; a subscript out of range ends
\* the evaluation with IndexError
BranchOf(l, t, lo, up, m) ==
    IF ~Valid(l, m) THEN "IndexError"
    ELSE IF Get(l, m) = t THEN "hit"
    ELSE IF ~Valid(l, lo) THEN "IndexError"
    ELSE IF t >= Get(l, lo) /\ t < Get(l, m) THEN "left"
    ELSE IF t > Get(l, m) /\ ~Valid(l, up) THEN "IndexError"
    ELSE IF t > Get(l, m) /\ t <= Get(l, up) THEN "right"
    ELSE IF Get(l, lo) > Get(l, m) THEN "linkleft"
    ELSE "linkright"

\* the indices the chain of lines 77-89 subscripts the list with
ReadsOf(l, t, lo, up, m) ==
    {m}
    \cup (IF Valid(l, m) /\ Get(l, m) # t THEN {lo} ELSE {})
    \cup (IF /\ Valid(l, m) /\ Get(l, m) # t
             /\ Valid(l, lo)
             /\ ~(t >= Get(l, lo) /\ t < Get(l, m))
             /\ t > Get(l, m)
          THEN {up} ELSE {})

(* ------------------------------ the calls ----------------------------- *)

\* a call that has been made and has not executed line 67 yet; mid is
\* unbound until line 76 and is never read before
Fresh(t) ==
    [target |-> t, pc |-> "entry", size |-> 0, lower |-> 0, upper |-> 0,
     mid |-> 0, pos |-> 0, found |-> FALSE,
     iters |-> 0, reads |-> {}, branch |-> "none"]

Calls == DOMAIN calls

\* the iteration of call c that line 75 has admitted
AtBody(c, b) ==
    /\ calls[c].pc = "body"
    /\ BranchOf(list, calls[c].target, calls[c].lower, calls[c].upper,
                Mid(calls[c].lower, calls[c].upper)) = b

\* the locals of call c after line 76 and the tests of the chain
Iterated(c, b) ==
    LET m == Mid(calls[c].lower, calls[c].upper) IN
    [calls[c] EXCEPT
        !.mid = m,
        !.iters = @ + 1,
        !.branch = b,
        !.reads = @ \cup ReadsOf(list, calls[c].target, calls[c].lower,
                                 calls[c].upper, m),
        !.pc = "test"]

EntryUpperSize(c) ==
    /\ calls[c].pc = "entry"
    /\ calls' = [calls EXCEPT ![c] =
                    [@ EXCEPT !.size = Len(list),
                              !.lower = 0,
                              !.upper = Len(list),
                              !.pos = -1,
                              !.found = (Len(list) = 0),
                              !.pc = "test"]]
    /\ UNCHANGED list

\* lines 67-74
Entry(c) ==
    /\ calls[c].pc = "entry"
    /\ calls' = [calls EXCEPT ![c] =
                    [@ EXCEPT !.size = Len(list),
                              !.lower = 0,
                              !.upper = Len(list) - 1,
                              !.pos = -1,
                              !.found = (Len(list) = 0),
                              !.pc = "test"]]
    /\ UNCHANGED list

\* line 75: the loop condition
Test(c) ==
    /\ calls[c].pc = "test"
    /\ calls' = [calls EXCEPT ![c].pc =
                    IF LoopCond(calls[c].found, calls[c].lower, calls[c].upper)
                    THEN "body" ELSE "ret"]
    /\ UNCHANGED list

\* lines 76-79
Hit(c) ==
    /\ AtBody(c, "hit")
    /\ calls' = [calls EXCEPT ![c] =
                    [Iterated(c, "hit") EXCEPT
                        !.pos = Mid(calls[c].lower, calls[c].upper),
                        !.found = TRUE]]
    /\ UNCHANGED list

GoLeftShared(c) ==
    /\ AtBody(c, "left")
    /\ calls' = [d \in Calls |->
                    IF d = c
                    THEN [Iterated(c, "left") EXCEPT
                             !.upper = Mid(calls[c].lower, calls[c].upper) - 1]
                    ELSE [calls[d] EXCEPT
                             !.upper = Mid(calls[c].lower, calls[c].upper) - 1]]
    /\ UNCHANGED list

\* lines 76, 80-81
GoLeft(c) ==
    /\ AtBody(c, "left")
    /\ calls' = [calls EXCEPT ![c] =
                    [Iterated(c, "left") EXCEPT
                        !.upper = Mid(calls[c].lower, calls[c].upper) - 1]]
    /\ UNCHANGED list

\* lines 76, 82-83
GoRight(c) ==
    /\ AtBody(c, "right")
    /\ calls' = [calls EXCEPT ![c] =
                    [Iterated(c, "right") EXCEPT
                        !.lower = Mid(calls[c].lower, calls[c].upper) + 1]]
    /\ UNCHANGED list

\* lines 76, 84-87: Marker 1, link to the left of mid
LinkLeft(c) ==
    /\ AtBody(c, "linkleft")
    /\ calls' = [calls EXCEPT ![c] =
                    [Iterated(c, "linkleft") EXCEPT
                        !.upper = Mid(calls[c].lower, calls[c].upper) - 1]]
    /\ UNCHANGED list

\* lines 76, 84-85, 88-89: Marker 1, link to the right of mid
LinkRight(c) ==
    /\ AtBody(c, "linkright")
    /\ calls' = [calls EXCEPT ![c] =
                    [Iterated(c, "linkright") EXCEPT
                        !.lower = Mid(calls[c].lower, calls[c].upper) + 1]]
    /\ UNCHANGED list

\* the call ends: return pos (line 90), or an IndexError raised by a
\* subscript of lines 77-86 leaves the function
Exit(c) ==
    /\ \/ calls[c].pc = "ret"
       \/ AtBody(c, "IndexError")
    /\ calls' = [calls EXCEPT ![c] =
                    IF calls[c].pc = "ret"
                    THEN [@ EXCEPT !.pc = "done"]
                    ELSE [Iterated(c, "IndexError") EXCEPT !.pc = "raised"]]
    /\ UNCHANGED list

Next ==
    \/ \E c \in 1..NumCalls : c \in Calls /\ Entry(c)
    \/ \E c \in 1..NumCalls : c \in Calls /\ Test(c)
    \/ \E c \in 1..NumCalls : c \in Calls /\ Hit(c)
    \/ \E c \in 1..NumCalls : c \in Calls /\ GoLeft(c)
    \/ \E c \in 1..NumCalls : c \in Calls /\ GoRight(c)
    \/ \E c \in 1..NumCalls : c \in Calls /\ LinkLeft(c)
    \/ \E c \in 1..NumCalls : c \in Calls /\ LinkRight(c)
    \/ \E c \in 1..NumCalls : c \in Calls /\ Exit(c)

(* --------------------------- specifications --------------------------- *)

\* one call on a list of arbitrary content
Init ==
    /\ list \in Lists(Vals, MaxLen)
    /\ \E t \in Targets : calls = [c \in 1..1 |-> Fresh(t)]

Spec == Init /\ [][Next]_vars

\* the call is never suspended for ever: the function is synchronous
FairSpec == Spec /\ WF_vars(Next)

\* one call on a rotation of a strictly ascending list, as lines 116-123
InitRot ==
    /\ list \in RotatedLists
    /\ \E t \in RotTargets : calls = [c \in 1..1 |-> Fresh(t)]

SpecRot == InitRot /\ [][Next]_vars

\* NumCalls calls on one list, their steps interleaved
InitConc ==
    /\ list \in Lists(ConcVals, ConcMaxLen)
    /\ calls \in [1..NumCalls -> {Fresh(t) : t \in ConcTargets}]

SpecConc == InitConc /\ [][Next]_vars

(* ------------------- circ_bs as a function of its inputs -------------- *)

RECURSIVE Search(_, _, _, _)
\* the loop of lines 75-89 run to its end on the window lo..up
Search(l, t, lo, up) ==
    IF ~LoopCond(FALSE, lo, up) THEN -1
    ELSE LET m == Mid(lo, up)
             b == BranchOf(l, t, lo, up, m)
         IN  CASE b = "hit" -> m
               [] b \in {"left", "linkleft"} -> Search(l, t, lo, m - 1)
               [] b \in {"right", "linkright"} -> Search(l, t, m + 1, up)
               [] OTHER -> -2

\* the value one call of circ_bs returns when it runs alone (-2: it raises)
circ_bs(l, t) == IF Len(l) = 0 THEN -1 ELSE Search(l, t, 0, Len(l) - 1)

(* ----------------------- vocabulary of the claims --------------------- *)

Elems(l) == {l[i] : i \in 1..Len(l)}

IsAscending(l) == \A i \in 1..(Len(l) - 1) : l[i] < l[i + 1]

IsNonDecreasing(l) == \A i \in 1..(Len(l) - 1) : l[i] <= l[i + 1]

\* l = rotate(S, k) for an ascending S: rotating on by n - k gives S back
StrictRot(l) == \E k \in 0..Len(l) : IsAscending(rotate(l, k))

NonDecRot(l) == \E k \in 0..Len(l) : IsNonDecreasing(rotate(l, k))

HasDuplicates(l) == Cardinality(Elems(l)) < Len(l)

\* the Python index of t in a list of distinct elements
IndexOf(l, t) == CHOOSE i \in 0..(Len(l) - 1) : l[i + 1] = t

\* indices i of the window lo..up with l[i] > l[i+1], as Python indices
LinksIn(l, lo, up) == {i \in 0..(Len(l) - 2) : lo <= i /\ i < up /\ l[i + 1] > l[i + 2]}

RECURSIVE CeilLog2From(_, _, _)
CeilLog2From(n, e, p) == IF p >= n THEN e ELSE CeilLog2From(n, e + 1, 2 * p)

\* ceil(log2(n)) for n >= 1
CeilLog2(n) == CeilLog2From(n, 0, 1)

Done(c) == calls[c].pc = "done"

Returned(c, j) == Done(c) /\ calls[c].pos = j

(* ------------------------------- claims ------------------------------- *)

\* C1: on a rotation of a strictly ascending list of length >= 1 (k = 0
\* included), a call whose target is an element of the list returns an index
\* j, not -1, with list[j] = target; on [6,7,8,1,2,3,4,5] the targets 1, 8
\* and 5 are found at 3, 2 and 7.
C1_FindsPresent ==
    \A c \in Calls :
        (Done(c) /\ Len(list) >= 1 /\ StrictRot(list)
                 /\ calls[c].target \in Elems(list))
        => /\ calls[c].pos \in 0..(Len(list) - 1)
           /\ list[calls[c].pos + 1] = calls[c].target
           /\ (list = <<6, 7, 8, 1, 2, 3, 4, 5>> =>
                  /\ calls[c].target = 1 => calls[c].pos = 3
                  /\ calls[c].target = 8 => calls[c].pos = 2
                  /\ calls[c].target = 5 => calls[c].pos = 7)

C1_Witness ==
    /\ list = <<6, 7, 8, 1, 2, 3, 4, 5>>
    /\ calls[1].target = 1
    /\ Returned(1, 3)

\* C2: whatever the list and the target, the value returned is -1 or an
\* index j with 0 <= j < n and list[j] = target; so a target that does not
\* occur in the list gets -1.
C2_ResultValid ==
    \A c \in Calls :
        Done(c) =>
           /\ \/ calls[c].pos = -1
              \/ /\ calls[c].pos \in 0..(Len(list) - 1)
                 /\ list[calls[c].pos + 1] = calls[c].target
           /\ (calls[c].target \notin Elems(list) => calls[c].pos = -1)

C2_Witness ==
    /\ ~NonDecRot(list)
    /\ HasDuplicates(list)
    /\ Done(1)
    /\ calls[1].pos >= 0
    /\ calls[1].iters >= 2

\* C3: whatever the list and the target, the call terminates (it returns, it
\* does not raise), and every subscript it evaluates lies in 0..n-1: upper is
\* never used as an index while it is -1, nor lower while it is n.
C3_TerminatesInBounds ==
    /\ [](\A c \in Calls :
             /\ calls[c].reads \subseteq 0..(Len(list) - 1)
             /\ calls[c].pc # "raised")
    /\ <>(\A c \in Calls : Done(c))

C3_Witness ==
    /\ Done(1)
    /\ Len(list) >= 2
    /\ ~NonDecRot(list)
    /\ calls[1].lower = Len(list)
    /\ calls[1].reads # {}

\* C5: one call executes at most ceil(log2(n)) + 1 iterations of the loop on
\* a list of length n >= 1, and none on the empty list.
C5_IterationBound ==
    \A c \in Calls :
        calls[c].iters <= (IF Len(list) = 0 THEN 0 ELSE CeilLog2(Len(list)) + 1)

C5_Witness ==
    /\ Done(1)
    /\ Len(list) = 4
    /\ calls[1].iters = 3

\* C6: on the empty list the call returns -1 without an iteration or a
\* comparison; on a one-element list [x] it returns 0 when target = x and -1
\* otherwise, after exactly one iteration.
C6_Degenerate ==
    \A c \in Calls :
        /\ Len(list) = 0 =>
              /\ calls[c].iters = 0
              /\ calls[c].reads = {}
              /\ calls[c].pc # "body"
              /\ Done(c) => calls[c].pos = -1
        /\ (Len(list) = 1 /\ Done(c)) =>
              /\ calls[c].iters = 1
              /\ calls[c].pos = (IF calls[c].target = list[1] THEN 0 ELSE -1)

C6_Witness ==
    /\ Len(list) = 1
    /\ calls[1].target = list[1]
    /\ Returned(1, 0)
    /\ calls[1].iters = 1

\* C7: calls running concurrently on one list, their steps interleaved in
\* any order, each return what the same call returns when it runs alone,
\* and no step changes the list.
C7_Concurrent ==
    /\ [](\A c \in Calls :
             Done(c) => calls[c].pos = circ_bs(list, calls[c].target))
    /\ [][list' = list]_vars

C7_Witness ==
    /\ Done(1)
    /\ calls[2].pc = "body"
    /\ calls[2].iters >= 1
    /\ calls[1].iters >= 2
    /\ calls[1].target # calls[2].target
    /\ calls[1].upper # calls[2].upper

\* C8: on a rotation of a strictly ascending list, whenever the loop
\* condition is evaluated before the target has been found, the index of a
\* target that occurs in the list lies in lower..upper.
C8_WindowInvariant ==
    \A c \in Calls :
        (calls[c].pc = "test" /\ ~calls[c].found /\ StrictRot(list)
                              /\ calls[c].target \in Elems(list))
        => /\ calls[c].lower <= IndexOf(list, calls[c].target)
           /\ IndexOf(list, calls[c].target) <= calls[c].upper

C8_Witness ==
    /\ calls[1].pc = "test"
    /\ ~calls[1].found
    /\ ~IsAscending(list)
    /\ calls[1].target \in Elems(list)
    /\ calls[1].iters >= 2
    /\ calls[1].branch \in {"linkleft", "linkright"}

\* C4: on a rotation of a non-decreasing list with duplicate values, a call
\* whose target occurs in the list returns an index j with list[j] = target,
\* not -1.
C4_FindsPresentWithDuplicates ==
    \A c \in Calls :
        (Done(c) /\ NonDecRot(list) /\ HasDuplicates(list)
                 /\ calls[c].target \in Elems(list))
        => /\ calls[c].pos \in 0..(Len(list) - 1)
           /\ list[calls[c].pos + 1] = calls[c].target

\* C9: on a rotation of a strictly ascending list, for any target, an
\* iteration that takes the else branch of Marker 1 has the link inside its
\* window: some i with lower <= i < upper and list[i] > list[i+1], with
\* lower <= i < mid when list[lower] > list[mid] and mid <= i < upper
\* otherwise.
C9_LinkInWindow ==
    \A c \in Calls :
        StrictRot(list) =>
           /\ AtBody(c, "linkleft") =>
                 LinksIn(list, calls[c].lower,
                         Mid(calls[c].lower, calls[c].upper)) # {}
           /\ AtBody(c, "linkright") =>
                 LinksIn(list, Mid(calls[c].lower, calls[c].upper),
                         calls[c].upper) # {}

\* C10: on an ascending list (rotation k = 0) no iteration executes the else
\* branch of Marker 1, whatever the target.
C10_SortedNeverExtended ==
    \A c \in Calls :
        IsAscending(list) => calls[c].branch \notin {"linkleft", "linkright"}

====
